---- MODULE Spec2Model ----
(***************************************************************************)
(* Round-robin HTTP load balancer (src/main.go): the main goroutine that   *)
(* registers the backends and runs the initial health check, the periodic  *)
(* health-check goroutine fed by a time.Tick channel, and the request      *)
(* goroutines that run ServeHTTP -> NextBackend -> ReverseProxy.ServeHTTP. *)
(* Locks are modelled with their holders: lb.mu (sync.Mutex) and every     *)
(* Backend.mu (sync.RWMutex, with Go's pending-writer rule).               *)
(*                                                                         *)
(* Four specifications share every action.  Spec runs NumRequests request  *)
(* goroutines concurrently against up to MaxBackends backends.  SpecSeq    *)
(* dispatches the requests of a single client one after the other against  *)
(* up to MaxServers backends, concurrently with the health checks; it is   *)
(* the one used for the properties of consecutive selections.  SpecFair is *)
(* the single client against up to MaxBackends backends under the fairness *)
(* of the scheduler, the ticker and the locks, for the liveness of the     *)
(* health check.  SpecFairCalls runs two request goroutines concurrently   *)
(* under the fairness of the locks, for the termination of NextBackend.    *)
(***************************************************************************)
EXTENDS Integers, Sequences, FiniteSets

\* ---------------------------------------------------------------- bounds
\* Largest len(serverList) explored by Spec (main.go configures five).
MaxBackends == 2
\* Largest len(serverList) explored by SpecSeq.
MaxServers == 3
\* Number of request goroutines that can be inside ServeHTTP at once.
NumRequests == 2
\* Length of the window of consecutive selections that is remembered.
MaxHist == 4

Requests == 1..NumRequests

\* nil, as returned by NextBackend when no backend is alive.
None == -1
\* lb.mu is unlocked (the zero value of sync.Mutex).
Free == 0

VARIABLES
    nServers,   \* len(serverList), the configured number of backends
    mainpc,     \* position of func main
    backends,   \* lb.backends: sequence of [Alive, mu]; Go index k is k+1 here
    current,    \* lb.current
    mu,         \* lb.mu: Free or the request goroutine that holds it
    hcpc,       \* position of the goroutine inside HealthCheck / the tick loop
    hcIdx,      \* index of the range loop of HealthCheck
    hcStatus,   \* local `status` of HealthCheck
    tick,       \* number of ticks buffered in the time.Tick channel (cap 1)
    pc,         \* position of each request goroutine
    next,       \* local `next` of NextBackend
    i,          \* local `i` of NextBackend
    idx,        \* local `idx` of NextBackend
    result,     \* value returned by NextBackend (local `backend` of ServeHTTP)
    target,     \* backend whose ReverseProxy is serving the request
    resp,       \* response written to the client
    nCalls,     \* history: NextBackend calls made by the current request
    nFwd,       \* history: forwards started by the current request
    changed,    \* history: some flag changed value since lb.mu was taken
    hist,       \* history: last selections made while all backends stayed alive
    updated,    \* history: backends whose flag was written in the current pass
    tickSeen,   \* history: the ticker has fired at least once
    periodicRan,\* history: HealthCheckPeriodically has started a pass
    probes,     \* history: the probe results of the current pass, in order
    missed,     \* history: per backend, consecutive calls that did not return
                \* it while it stayed alive (None: it did not stay alive)
    revived,    \* history: backend marked alive again and not selected since
    everAlive   \* history: some health check has marked a backend alive

lbVars  == <<backends, current, mu>>
hcVars  == <<hcpc, hcIdx, hcStatus, tick>>
reqVars == <<pc, next, i, idx, result, target, resp>>
histVars == <<nCalls, nFwd, changed, hist, updated, tickSeen, periodicRan>>
obsVars == <<probes, missed, revived, everAlive>>
vars == <<nServers, mainpc, lbVars, hcVars, reqVars, histVars, obsVars>>

\* ------------------------------------------------------------ data model
\* A sync.RWMutex: w = write-locked, pend = a writer is waiting in Lock(),
\* r = the goroutines holding a read lock.
RWMutex == [w |-> FALSE, pend |-> FALSE, r |-> {}]

\* &Backend{URL: u, ReverseProxy: proxy}: Alive is Go's zero value, false.
BackendFailOpen == [Alive |-> TRUE, mu |-> RWMutex]
Backend == [Alive |-> FALSE, mu |-> RWMutex]

\* len(lb.backends)
nBackends == Len(backends)

\* The Go indices of lb.backends.
Indices == 0..(nBackends - 1)

\* lb.backends[k]
At(k) == backends[k + 1]

AllAlive == \A k \in Indices : At(k).Alive
AllDead == \A k \in Indices : ~At(k).Alive

\* lb.mu.Lock() can proceed only on an unlocked mutex.
CanLockAlways(m) == TRUE
CanLock(m) == m = Free

\* lb.mu after the deferred lb.mu.Unlock().
UnlockMissing(m) == m
Unlock(m) == Free

\* Backend.mu after the deferred b.mu.Unlock() of SetAlive.
WUnlockMissing(m) == m
WUnlock(m) == [m EXCEPT !.w = FALSE]

\* next := (lb.current + 1) % nBackends
NextIndexStay(c, n) == c % n
NextIndexSkip(c, n) == (c + 2) % n
NextIndex(c, n) == (c + 1) % n

\* idx := (next + i) % nBackends
CandidateSkip(nxt, j, n) == (nxt + j + 1) % n
Candidate(nxt, j, n) == (nxt + j) % n

\* The value stored by `lb.current = idx`.
SelectedNext(k) == k + 1
Selected(k) == k

\* Backend.IsAlive's return value: `return b.Alive`.
IsAliveAlways(k) == TRUE
IsAliveNotRevived(k) == At(k).Alive /\ k # revived
IsAlive(k) == At(k).Alive

\* Backend.mu after the deferred b.mu.RUnlock() of IsAlive by goroutine r.
RUnlockMissing(m, r) == m
RUnlock(m, r) == [m EXCEPT !.r = @ \ {r}]

\* The backend after `b.Alive = alive` in SetAlive.
SetAliveToggle(b, alive) == [b EXCEPT !.Alive = (alive # b.Alive)]
SetAlive(b, alive) == [b EXCEPT !.Alive = alive]

\* Receiving from the time.Tick channel needs a buffered tick.
TickReadyAlways(t) == TRUE
TickReady(t) == t = 1

\* Sliding-window append for the selection history.
Remember(h, k) ==
    IF Len(h) < MaxHist THEN Append(h, k) ELSE Append(Tail(h), k)

\* ------------------------------------------------------------------ Init
\* The state right after `lb := new(LoadBalancer)`: no backend registered,
\* lb.current = 0, lb.mu unlocked, no goroutine started, no request accepted.
Start ==
    /\ mainpc = "register"
    /\ backends = <<>>
    /\ current = 0
    /\ mu = Free
    /\ hcpc = "off"
    /\ hcIdx = 0
    /\ hcStatus = FALSE
    /\ tick = 0
    /\ pc = [r \in Requests |-> "idle"]
    /\ next = [r \in Requests |-> 0]
    /\ i = [r \in Requests |-> 0]
    /\ idx = [r \in Requests |-> 0]
    /\ result = [r \in Requests |-> None]
    /\ target = [r \in Requests |-> None]
    /\ resp = [r \in Requests |-> "none"]
    /\ nCalls = [r \in Requests |-> 0]
    /\ nFwd = [r \in Requests |-> 0]
    /\ changed = FALSE
    /\ hist = <<>>
    /\ updated = {}
    /\ tickSeen = FALSE
    /\ periodicRan = FALSE
    /\ probes = <<>>
    /\ revived = None
    /\ everAlive = FALSE

\* The selection histories `missed` and `revived` are kept for the backends
\* in the domain of `missed`: none under Spec, all of them under SpecSeq.
Init ==
    /\ nServers \in 1..MaxBackends
    /\ Start
    /\ missed = [k \in {} |-> None]

InitSeq ==
    /\ nServers \in 1..MaxServers
    /\ Start
    /\ missed = [k \in 0..(nServers - 1) |-> None]

\* ------------------------------------------------------------- func main
\* One iteration of `for _, serverURL := range serverList`: append a Backend.
main_register ==
    /\ mainpc = "register"
    /\ nBackends < nServers
    /\ backends' = Append(backends, Backend)
    /\ UNCHANGED <<nServers, mainpc, current, mu, hcVars, reqVars, histVars, obsVars>>

\* `lb.HealthCheck()` called by main: the initial pass starts at backend 0.
main_HealthCheck ==
    /\ mainpc = "register"
    /\ nBackends = nServers
    /\ mainpc' = "initial"
    /\ hcpc' = "dial"
    /\ hcIdx' = 0
    /\ updated' = {}
    /\ probes' = <<>>
    /\ UNCHANGED <<nServers, lbVars, hcStatus, tick, reqVars,
                   nCalls, nFwd, changed, hist, tickSeen, periodicRan,
                   missed, revived, everAlive>>

\* `go lb.HealthCheckPeriodically(10 * time.Second)`: the goroutine creates
\* the ticker and blocks on its channel.
main_go ==
    /\ mainpc = "spawn"
    /\ mainpc' = "listen"
    /\ hcpc' = "tickwait"
    /\ UNCHANGED <<nServers, lbVars, hcIdx, hcStatus, tick, reqVars, histVars, obsVars>>

\* `server.ListenAndServe()`: from now on requests are accepted.
main_ListenAndServe ==
    /\ mainpc = "listen"
    /\ mainpc' = "serve"
    /\ UNCHANGED <<nServers, lbVars, hcVars, reqVars, histVars, obsVars>>

\* ---------------------------------------------------------- health check
\* The ticker of time.Tick(interval) fires. Its channel buffers one tick; a
\* tick that finds the buffer full is dropped (no state change).
Tick ==
    /\ mainpc \in {"listen", "serve"}
    /\ tick = 0
    /\ tick' = 1
    /\ tickSeen' = TRUE
    /\ UNCHANGED <<nServers, mainpc, lbVars, hcpc, hcIdx, hcStatus, reqVars,
                   nCalls, nFwd, changed, hist, updated, periodicRan, obsVars>>

\* `for range time.Tick(interval) { lb.HealthCheck() }`: receive one tick
\* and start a pass at backend 0.
HealthCheckPeriodically ==
    /\ hcpc = "tickwait"
    /\ TickReady(tick)
    /\ tick' = 0
    /\ hcpc' = "dial"
    /\ hcIdx' = 0
    /\ updated' = {}
    /\ periodicRan' = TRUE
    /\ probes' = <<>>
    /\ UNCHANGED <<nServers, mainpc, lbVars, hcStatus, reqVars,
                   nCalls, nFwd, changed, hist, tickSeen,
                   missed, revived, everAlive>>

\* A range loop that handles every other backend only.
HealthCheckLoopSkip ==
    IF hcIdx + 2 < nBackends
    THEN /\ hcIdx' = hcIdx + 2
         /\ hcpc' = "dial"
         /\ mainpc' = mainpc
    ELSE /\ hcIdx' = 0
         /\ hcpc' = IF mainpc = "initial" THEN "off" ELSE "tickwait"
         /\ mainpc' = IF mainpc = "initial" THEN "spawn" ELSE mainpc

\* Where the goroutine goes when HealthCheck's range loop has handled
\* backend hcIdx: the next backend, or back to the caller of HealthCheck.
HealthCheckLoop ==
    IF hcIdx + 1 < nBackends
    THEN /\ hcIdx' = hcIdx + 1
         /\ hcpc' = "dial"
         /\ mainpc' = mainpc
    ELSE /\ hcIdx' = 0
         /\ hcpc' = IF mainpc = "initial" THEN "off" ELSE "tickwait"
         /\ mainpc' = IF mainpc = "initial" THEN "spawn" ELSE mainpc

\* A health check that returns from its caller's loop when a probe fails.
isBackendAliveAbort(status) ==
    /\ hcpc = "dial"
    /\ hcStatus' = status
    /\ hcpc' = IF status THEN "setalive" ELSE "off"
    /\ probes' = Append(probes, status)
    /\ UNCHANGED <<nServers, mainpc, lbVars, hcIdx, tick, reqVars, histVars,
                   missed, revived, everAlive>>

\* `status := isBackendAlive(b.URL)`: the dial returns; `status` is whether
\* the connection was established (decided by the network).
isBackendAlive(status) ==
    /\ hcpc = "dial"
    /\ hcStatus' = status
    /\ hcpc' = "setalive"
    /\ probes' = Append(probes, status)
    /\ UNCHANGED <<nServers, mainpc, lbVars, hcIdx, tick, reqVars, histVars,
                   missed, revived, everAlive>>

\* `b.mu.Lock()` of SetAlive: taken at once when no reader holds the lock,
\* otherwise the writer is announced and waits for the readers to leave.
SetAliveLock ==
    /\ hcpc = "setalive"
    /\ IF At(hcIdx).mu.r = {}
         THEN /\ backends' = [backends EXCEPT ![hcIdx + 1].mu.w = TRUE]
              /\ hcpc' = "store"
         ELSE /\ backends' = [backends EXCEPT ![hcIdx + 1].mu.pend = TRUE]
              /\ hcpc' = "lockwait"
    /\ UNCHANGED <<nServers, mainpc, current, mu, hcIdx, hcStatus, tick,
                   reqVars, histVars, obsVars>>

\* The announced writer gets the lock once the last reader has left.
SetAliveAcquire ==
    /\ hcpc = "lockwait"
    /\ At(hcIdx).mu.r = {}
    /\ backends' = [backends EXCEPT ![hcIdx + 1].mu.w = TRUE,
                                    ![hcIdx + 1].mu.pend = FALSE]
    /\ hcpc' = "store"
    /\ UNCHANGED <<nServers, mainpc, current, mu, hcIdx, hcStatus, tick,
                   reqVars, histVars, obsVars>>

\* `b.Alive = alive` and the deferred `b.mu.Unlock()` of SetAlive, which
\* returns to HealthCheck.
SetAliveStore ==
    /\ hcpc = "store"
    /\ backends' = [backends EXCEPT
                       ![hcIdx + 1] = [SetAlive(@, hcStatus) EXCEPT
                                          !.mu = WUnlock(@)]]
    /\ hcpc' = "range"
    /\ updated' = updated \cup {hcIdx}
    /\ changed' = (changed \/ (mu # Free /\ At(hcIdx).Alive # hcStatus))
    /\ hist' = IF hcStatus THEN hist ELSE <<>>
    /\ missed' = [k \in DOMAIN missed |->
                     IF k # hcIdx THEN missed[k]
                     ELSE IF ~hcStatus THEN None
                     ELSE IF At(k).Alive THEN missed[k]
                     ELSE IF mu = Free THEN 0 ELSE None]
    /\ revived' = IF /\ hcStatus /\ ~At(hcIdx).Alive /\ mainpc # "initial"
                     /\ hcIdx \in DOMAIN missed
                     THEN hcIdx
                     ELSE IF ~hcStatus /\ revived = hcIdx THEN None
                     ELSE revived
    /\ everAlive' = (everAlive \/ hcStatus)
    /\ UNCHANGED <<nServers, mainpc, current, mu, hcIdx, hcStatus, tick,
                   reqVars, nCalls, nFwd, tickSeen, periodicRan, probes>>

\* After SetAlive has returned: the `fmt.Printf` of HealthCheck and the step
\* of its range loop, to the next backend or back to the caller.
HealthCheckRange ==
    /\ hcpc = "range"
    /\ HealthCheckLoop
    /\ UNCHANGED <<nServers, lbVars, hcStatus, tick, reqVars, histVars,
                   obsVars>>

\* -------------------------------------------------------------- requests
\* The listener hands a request to ServeHTTP, which calls lb.NextBackend().
ServeHTTP(r) ==
    /\ mainpc = "serve"
    /\ pc[r] = "idle"
    /\ pc' = [pc EXCEPT ![r] = "lock"]
    /\ nCalls' = [nCalls EXCEPT ![r] = @ + 1]
    /\ UNCHANGED <<nServers, mainpc, lbVars, hcVars, next, i, idx, result,
                   target, resp, nFwd, changed, hist, updated, tickSeen,
                   periodicRan, obsVars>>

\* `lb.mu.Lock()`, then `nBackends := len(lb.backends)`,
\* `next := (lb.current + 1) % nBackends` and the loop entry `i := 0`.
NextBackendLock(r) ==
    /\ pc[r] = "lock"
    /\ CanLock(mu)
    /\ mu' = r
    /\ next' = [next EXCEPT ![r] = NextIndex(current, nBackends)]
    /\ i' = [i EXCEPT ![r] = 0]
    /\ idx' = [idx EXCEPT ![r] =
                  Candidate(NextIndex(current, nBackends), 0, nBackends)]
    /\ pc' = [pc EXCEPT ![r] = "rlock"]
    /\ changed' = FALSE
    /\ UNCHANGED <<nServers, mainpc, backends, current, hcVars, result, target,
                   resp, nCalls, nFwd, hist, updated, tickSeen, periodicRan,
                   obsVars>>

\* `b.mu.RLock()` of IsAlive on lb.backends[idx]: blocked while a writer
\* holds the lock or waits for it.
IsAliveRLock(r) ==
    /\ pc[r] = "rlock"
    /\ ~At(idx[r]).mu.w
    /\ ~At(idx[r]).mu.pend
    /\ backends' = [backends EXCEPT ![idx[r] + 1].mu.r = @ \cup {r}]
    /\ pc' = [pc EXCEPT ![r] = "read"]
    /\ UNCHANGED <<nServers, mainpc, current, mu, hcVars, next, i, idx, result,
                   target, resp, histVars, obsVars>>

\* `return b.Alive` and the deferred `b.mu.RUnlock()` of IsAlive: the call
\* returns into the `if` of NextBackend, to its body when the flag was true
\* and to the loop's `i++` when it was false.
IsAliveReturn(r) ==
    /\ pc[r] = "read"
    /\ backends' = [backends EXCEPT ![idx[r] + 1].mu = RUnlock(@, r)]
    /\ pc' = [pc EXCEPT ![r] = IF IsAlive(idx[r]) THEN "select" ELSE "advance"]
    /\ UNCHANGED <<nServers, mainpc, current, mu, hcVars, next, i, idx, result,
                   target, resp, histVars, obsVars>>

\* `lb.current = idx` and `return lb.backends[idx]`, up to the deferred
\* Unlock.
NextBackendSelect(r) ==
    /\ pc[r] = "select"
    /\ current' = Selected(idx[r])
    /\ result' = [result EXCEPT ![r] = idx[r]]
    /\ pc' = [pc EXCEPT ![r] = "unlock"]
    /\ UNCHANGED <<nServers, mainpc, backends, mu, hcVars, next, i, idx,
                   target, resp, histVars, obsVars>>

\* A loop that moves the cursor to `next` when it steps over a candidate.
NextBackendAdvanceCursor(r) ==
    /\ pc[r] = "advance"
    /\ current' = next[r]
    /\ i' = [i EXCEPT ![r] = @ + 1]
    /\ IF i[r] + 1 < nBackends
         THEN /\ idx' = [idx EXCEPT ![r] =
                            Candidate(next[r], i[r] + 1, nBackends)]
              /\ pc' = [pc EXCEPT ![r] = "rlock"]
              /\ result' = result
         ELSE /\ idx' = idx
              /\ pc' = [pc EXCEPT ![r] = "unlock"]
              /\ result' = [result EXCEPT ![r] = None]
    /\ UNCHANGED <<nServers, mainpc, backends, mu, hcVars, next, target, resp,
                   histVars, obsVars>>

\* `i++` and `i < nBackends` of the loop of NextBackend after a dead
\* candidate: the next candidate `idx := (next + i) % nBackends`, or the end
\* of the loop and `return nil`, up to the deferred Unlock. lb.current is
\* left alone.
NextBackendAdvance(r) ==
    /\ pc[r] = "advance"
    /\ i' = [i EXCEPT ![r] = @ + 1]
    /\ IF i[r] + 1 < nBackends
         THEN /\ idx' = [idx EXCEPT ![r] =
                            Candidate(next[r], i[r] + 1, nBackends)]
              /\ pc' = [pc EXCEPT ![r] = "rlock"]
              /\ result' = result
         ELSE /\ idx' = idx
              /\ pc' = [pc EXCEPT ![r] = "unlock"]
              /\ result' = [result EXCEPT ![r] = None]
    /\ UNCHANGED <<nServers, mainpc, lbVars, hcVars, next, target, resp,
                   histVars, obsVars>>

\* The deferred `lb.mu.Unlock()`: NextBackend returns to ServeHTTP.
NextBackendUnlock(r) ==
    /\ pc[r] = "unlock"
    /\ mu' = Unlock(mu)
    /\ next' = [next EXCEPT ![r] = 0]
    /\ i' = [i EXCEPT ![r] = 0]
    /\ idx' = [idx EXCEPT ![r] = 0]
    /\ pc' = [pc EXCEPT ![r] = "returned"]
    /\ changed' = FALSE
    /\ hist' = IF AllAlive /\ ~changed THEN Remember(hist, result[r]) ELSE <<>>
    /\ missed' = [k \in DOMAIN missed |->
                     IF ~At(k).Alive THEN None
                     ELSE IF result[r] = k \/ missed[k] = None THEN 0
                     ELSE IF missed[k] < nBackends THEN missed[k] + 1
                     ELSE missed[k]]
    /\ revived' = IF result[r] = revived THEN None ELSE revived
    /\ UNCHANGED <<nServers, mainpc, backends, current, hcVars, result, target,
                   resp, nCalls, nFwd, updated, tickSeen, periodicRan, probes,
                   everAlive>>

\* `if backend == nil { http.Error(w, ..., 503); return }`, otherwise the
\* call of `backend.ReverseProxy.ServeHTTP(w, r)`.
ServeHTTPDispatch(r) ==
    /\ pc[r] = "returned"
    /\ IF result[r] = None
         THEN /\ resp' = [resp EXCEPT ![r] = "unavailable"]
              /\ pc' = [pc EXCEPT ![r] = "done"]
              /\ UNCHANGED <<target, nFwd>>
         ELSE /\ resp' = resp
              /\ pc' = [pc EXCEPT ![r] = "forward"]
              /\ target' = [target EXCEPT ![r] = result[r]]
              /\ nFwd' = [nFwd EXCEPT ![r] = @ + 1]
    /\ UNCHANGED <<nServers, mainpc, lbVars, hcVars, next, i, idx, result,
                   nCalls, changed, hist, updated, tickSeen, periodicRan,
                   obsVars>>

\* A dispatcher that asks for another backend when the forward fails.
ReverseProxyServeHTTPRetry(r, ok) ==
    /\ pc[r] = "forward"
    /\ IF ok
         THEN /\ resp' = [resp EXCEPT ![r] = "ok"]
              /\ pc' = [pc EXCEPT ![r] = "done"]
              /\ nCalls' = nCalls
         ELSE /\ resp' = resp
              /\ pc' = [pc EXCEPT ![r] = "lock"]
              /\ nCalls' = [nCalls EXCEPT ![r] = @ + 1]
    /\ result' = [result EXCEPT ![r] = None]
    /\ target' = [target EXCEPT ![r] = None]
    /\ UNCHANGED <<nServers, mainpc, lbVars, hcVars, next, i, idx,
                   nFwd, changed, hist, updated, tickSeen, periodicRan,
                   obsVars>>

\* An error handler that also marks the failing backend dead.
ReverseProxyServeHTTPMarkDead(r, ok) ==
    /\ pc[r] = "forward"
    /\ resp' = [resp EXCEPT ![r] = IF ok THEN "ok" ELSE "unavailable"]
    /\ pc' = [pc EXCEPT ![r] = "done"]
    /\ result' = [result EXCEPT ![r] = None]
    /\ target' = [target EXCEPT ![r] = None]
    /\ backends' = IF ok THEN backends
                   ELSE [backends EXCEPT ![target[r] + 1].Alive = FALSE]
    /\ UNCHANGED <<nServers, mainpc, current, mu, hcVars, next, i, idx, histVars, obsVars>>

\* The forward ends: the backend's response is relayed (ok), or the
\* transport failed and proxy.ErrorHandler answers 503. ServeHTTP returns.
ReverseProxyServeHTTP(r, ok) ==
    /\ pc[r] = "forward"
    /\ resp' = [resp EXCEPT ![r] = IF ok THEN "ok" ELSE "unavailable"]
    /\ pc' = [pc EXCEPT ![r] = "done"]
    /\ result' = [result EXCEPT ![r] = None]
    /\ target' = [target EXCEPT ![r] = None]
    /\ UNCHANGED <<nServers, mainpc, lbVars, hcVars, next, i, idx, histVars, obsVars>>

\* The response has been written; the goroutine's slot takes a new request.
Finish(r) ==
    /\ pc[r] = "done"
    /\ pc' = [pc EXCEPT ![r] = "idle"]
    /\ resp' = [resp EXCEPT ![r] = "none"]
    /\ nCalls' = [nCalls EXCEPT ![r] = 0]
    /\ nFwd' = [nFwd EXCEPT ![r] = 0]
    /\ UNCHANGED <<nServers, mainpc, lbVars, hcVars, next, i, idx, result,
                   target, changed, hist, updated, tickSeen, periodicRan,
                   obsVars>>

\* ------------------------------------------------------------------ Next
\* main and the health-check goroutine.
System ==
    \/ main_register
    \/ main_HealthCheck
    \/ main_go
    \/ main_ListenAndServe
    \/ Tick
    \/ HealthCheckPeriodically
    \/ \E status \in BOOLEAN : isBackendAlive(status)
    \/ SetAliveLock
    \/ SetAliveAcquire
    \/ SetAliveStore
    \/ HealthCheckRange

\* One request goroutine.
Request(r) ==
    \/ ServeHTTP(r)
    \/ NextBackendLock(r)
    \/ IsAliveRLock(r)
    \/ IsAliveReturn(r)
    \/ NextBackendSelect(r)
    \/ NextBackendAdvance(r)
    \/ NextBackendUnlock(r)
    \/ ServeHTTPDispatch(r)
    \/ \E ok \in BOOLEAN : ReverseProxyServeHTTP(r, ok)
    \/ Finish(r)

Next == System \/ \E r \in Requests : Request(r)

Spec == Init /\ [][Next]_vars

\* The single client of SpecSeq sends its next request when it has the
\* answer to the previous one.
NextSeq == System \/ Request(1)

SpecSeq == InitSeq /\ [][NextSeq]_vars

\* What the Go scheduler, the runtime's timer and the locks guarantee: a
\* goroutine that can run does run (main, the health check, the steps of a
\* request inside NextBackend); the ticker keeps firing; a dial returns, at
\* the latest on its 2 s timeout. A goroutine blocked in RLock or in Lock
\* is served when the lock is released (sync.RWMutex hands the lock to the
\* readers that waited for the writer, sync.Mutex has a starvation mode),
\* hence strong fairness there. Nothing obliges a client to send requests or
\* a backend to answer one.
Fairness(R) ==
    /\ WF_vars(main_register)
    /\ WF_vars(main_HealthCheck)
    /\ WF_vars(main_go)
    /\ WF_vars(main_ListenAndServe)
    /\ WF_vars(Tick)
    /\ WF_vars(HealthCheckPeriodically)
    /\ WF_vars(\E status \in BOOLEAN : isBackendAlive(status))
    /\ WF_vars(SetAliveLock)
    /\ WF_vars(SetAliveAcquire)
    /\ WF_vars(SetAliveStore)
    /\ WF_vars(HealthCheckRange)
    /\ \A r \in R :
          /\ SF_vars(NextBackendLock(r))
          /\ SF_vars(IsAliveRLock(r))
          /\ WF_vars(IsAliveReturn(r))
          /\ WF_vars(NextBackendSelect(r))
          /\ WF_vars(NextBackendAdvance(r))
          /\ WF_vars(NextBackendUnlock(r))

\* The single client against up to MaxBackends backends, under the
\* fairness above.
SpecFair ==
    /\ Init
    /\ [][NextSeq]_vars
    /\ Fairness({1})

\* The two request goroutines whose NextBackend calls contend under
\* SpecFairCalls.
Callers == {1, 2}

\* What the termination of a NextBackend call relies on: the goroutines
\* inside NextBackend and inside SetAlive run, and a goroutine blocked in
\* RLock() is served when the writer releases the lock. Nothing is assumed
\* of main, the ticker, the dial, the clients or the backends, nor of who
\* gets lb.mu next.
FairCalls(R) ==
    /\ WF_vars(SetAliveAcquire \/ SetAliveStore)
    /\ \A r \in R :
          /\ SF_vars(IsAliveRLock(r))
          /\ WF_vars(\/ IsAliveReturn(r)
                     \/ NextBackendSelect(r)
                     \/ NextBackendAdvance(r)
                     \/ NextBackendUnlock(r)
                     \/ ServeHTTPDispatch(r))

NextCalls == System \/ \E r \in Callers : Request(r)

\* Two request goroutines running concurrently with each other and with the
\* health checks, against up to MaxBackends backends, under FairCalls.
SpecFairCalls ==
    /\ Init
    /\ [][NextCalls]_vars
    /\ FairCalls(Callers)

\* ---------------------------------------------------------------- claims
\* The request goroutines inside NextBackend's critical section.
InNextBackend ==
    {r \in Requests : pc[r] \in {"rlock", "read", "select", "advance", "unlock"}}

\* The goroutine inside HealthCheck is between two backends' SetAlive calls.
InPass == hcpc \in {"dial", "setalive", "lockwait", "store", "range"}

\* Number of times backend k occurs in the selection history h.
Count(h, k) == Cardinality({j \in 1..Len(h) : h[j] = k})

\* C1: while all N backends are and stay alive, consecutive NextBackend
\* calls walk the backends in circular order (each returned index is the
\* previous one plus one, mod N), so M consecutive calls visit every backend
\* floor(M/N) or ceil(M/N) times.
RoundRobin ==
    /\ \A j \in 1..Len(hist) : hist[j] \in Indices
    /\ \A j \in 2..Len(hist) : hist[j] = (hist[j - 1] + 1) % nBackends
    /\ \A k \in Indices :
          Count(hist, k) \in { Len(hist) \div nBackends,
                               (Len(hist) + nBackends - 1) \div nBackends }

\* C1 witness: more consecutive all-alive selections than backends, with at
\* least three backends, so the walk has wrapped around.
RoundRobinWitness ==
    /\ nBackends >= 3
    /\ Len(hist) > nBackends

\* C2 as stated: a NextBackend call that is about to return backend k never
\* does so while k is marked dead.
NeverReturnsDead ==
    \A r \in Requests :
        (pc[r] = "unlock" /\ result[r] # None) => At(result[r]).Alive

\* C2 amended: NextBackend selects backend k only when its liveness check
\* of k has just found k's flag true: the check leads to the selection only
\* on a true flag, and the backend returned is the candidate of that check.
\* A flag cleared after the check and before the return does not stop the
\* call from returning k.
SelectsOnlyAlive ==
    [][ \A r \in Requests :
           /\ (pc[r] = "read" /\ pc'[r] = "select") => At(idx[r]).Alive
           /\ pc'[r] = "select" => pc[r] \in {"read", "select"}
           /\ (result'[r] # result[r] /\ result'[r] # None)
                 => (pc[r] = "select" /\ result'[r] = idx[r]) ]_vars

\* C2 witness: a call has skipped a candidate that is marked dead and has
\* selected a later one.
SelectsOnlyAliveWitness ==
    \E r \in Requests :
        /\ pc[r] = "unlock"
        /\ result[r] # None
        /\ i[r] >= 1
        /\ ~At(next[r]).Alive

\* C3: a NextBackend call during which every backend is dead returns nil,
\* and a call that returns nil leaves lb.current as it found it (`next` was
\* computed from the cursor read under the lock).
AllDeadReturnsNone ==
    \A r \in Requests :
        pc[r] = "unlock" =>
            /\ (AllDead /\ ~changed) => result[r] = None
            /\ result[r] = None => (current + 1) % nBackends = next[r]

\* C3 witness: a call ends with nil while all of at least two backends are
\* dead and the cursor, advanced by an earlier call, is not at 0.
AllDeadReturnsNoneWitness ==
    \E r \in Requests :
        /\ pc[r] = "unlock"
        /\ result[r] = None
        /\ AllDead
        /\ ~changed
        /\ nBackends >= 2
        /\ current >= 1

\* C4: a request calls NextBackend once; on nil it is answered 503 without
\* any forward; otherwise it is forwarded once, to the backend NextBackend
\* returned, and a failed forward is answered 503 without another attempt.
OneCallOneForward ==
    \A r \in Requests :
        /\ nCalls[r] <= 1
        /\ nFwd[r] <= 1
        /\ pc[r] \in {"lock", "rlock", "read", "select", "advance", "unlock",
                    "returned"}
              => (nCalls[r] = 1 /\ nFwd[r] = 0)
        /\ pc[r] = "forward"
              => /\ nCalls[r] = 1
                 /\ nFwd[r] = 1
                 /\ result[r] \in Indices
                 /\ target[r] = result[r]
        /\ pc[r] = "done"
              => /\ nCalls[r] = 1
                 /\ resp[r] \in {"ok", "unavailable"}
                 /\ nFwd[r] = 0 => resp[r] = "unavailable"

\* C4 witness: a request whose single forward failed has been answered 503
\* after one NextBackend call.
OneCallOneForwardWitness ==
    \E r \in Requests :
        /\ pc[r] = "done"
        /\ nCalls[r] = 1
        /\ nFwd[r] = 1
        /\ resp[r] = "unavailable"

\* C5: at most one request goroutine is between lb.mu.Lock() and the
\* deferred Unlock, it is the holder of lb.mu, and a call made while all
\* backends stay alive returns a valid index.
MutualExclusion ==
    /\ Cardinality(InNextBackend) <= 1
    /\ \A r \in InNextBackend : mu = r
    /\ \A r \in Requests :
          (pc[r] = "unlock" /\ AllAlive /\ ~changed) => result[r] \in Indices

\* C5 witness: with all backends alive, one call is about to return a valid
\* index while another concurrent call waits in lb.mu.Lock().
MutualExclusionWitness ==
    \E r1, r2 \in Requests :
        /\ r1 # r2
        /\ nBackends >= 2
        /\ AllAlive
        /\ ~changed
        /\ pc[r1] = "unlock"
        /\ result[r1] \in Indices
        /\ pc[r2] = "lock"

\* C6: once a backend is registered, lb.current is a valid index of
\* lb.backends in every state.
CursorValid == nBackends >= 1 => current \in Indices

\* C6 witness: a selection has just moved the cursor to the last index.
CursorValidWitness ==
    \E r \in Requests :
        /\ pc[r] = "unlock"
        /\ nBackends >= 2
        /\ result[r] = current
        /\ current = nBackends - 1

\* The dial of backend j's probe returns: the step after which j's flag
\* can be written.
ProbeReturns(j) ==
    /\ hcIdx = j
    /\ \E status \in BOOLEAN : isBackendAlive(status)

\* C7: within a pass the probes are independent per backend: while the
\* probe of backend a is pending (failing, or blocked until its timeout),
\* the probe of any other backend j whose flag this pass has not written yet
\* can return, so that j's flag can be updated without waiting for a.
ProbesIndependent ==
    \A a, j \in Indices :
        (hcpc = "dial" /\ hcIdx = a /\ j # a /\ j \notin updated)
            => ENABLED ProbeReturns(j)

\* C8 as stated: HealthCheckPeriodically has run a pass by the time the
\* first interval has elapsed.
RunsImmediately == tickSeen => periodicRan

\* C8 amended: HealthCheckPeriodically runs no pass when it is started; it
\* starts a pass only by taking a tick from the ticker's channel, the first
\* one after the first interval (the pass at startup is main's own call).
RunsOnTick ==
    [][ /\ periodicRan' => tickSeen'
        /\ (hcpc = "tickwait" /\ hcpc' = "dial") => (tick = 1 /\ tick' = 0)
      ]_vars

\* C8 witness: a pass of the periodic goroutine is probing, having consumed
\* the tick that started it.
RunsOnTickWitness ==
    /\ periodicRan
    /\ tickSeen
    /\ hcpc = "dial"
    /\ tick = 0

\* C9: while a probe's dial is pending, no Backend.mu is write-locked or
\* claimed by a waiting writer, and lb.mu is free or held by a request
\* goroutine inside NextBackend.
ProbeHoldsNoLock ==
    hcpc = "dial" =>
        /\ \A k \in Indices : ~At(k).mu.w /\ ~At(k).mu.pend
        /\ mu = Free \/ mu \in InNextBackend

\* C9 witness: during a pending dial a request goroutine holds lb.mu and a
\* backend's read lock, i.e. its NextBackend call is making progress.
ProbeHoldsNoLockWitness ==
    /\ hcpc = "dial"
    /\ \E r \in Requests : pc[r] = "read" /\ mu = r /\ r \in At(idx[r]).mu.r

\* C10: a request goroutine that is forwarding holds neither lb.mu nor a
\* read lock of any backend.
ForwardHoldsNoLock ==
    \A r \in Requests :
        pc[r] = "forward" =>
            /\ mu # r
            /\ \A k \in Indices : r \notin At(k).mu.r

\* C10 witness: while one request is being forwarded, another one is inside
\* NextBackend holding lb.mu and the health check holds a write lock.
ForwardHoldsNoLockWitness ==
    \E r1, r2 \in Requests :
        /\ pc[r1] = "forward"
        /\ pc[r2] = "rlock"
        /\ mu = r2
        /\ hcpc = "store"

\* C11: a backend's Alive flag changes only in the store of SetAlive made
\* by the health check, and to the probe's result; no step of NextBackend,
\* of ServeHTTP or of a forward (failed or not) changes any flag.
FlagsWrittenOnlyByHealthCheck ==
    [][ \A k \in Indices :
           backends'[k + 1].Alive # backends[k + 1].Alive
              => /\ hcpc = "store"
                 /\ hcpc' # "store"
                 /\ k = hcIdx
                 /\ backends'[k + 1].Alive = hcStatus ]_vars

\* C11 witness: a forward has failed and was answered 503 while every
\* backend, the one it was sent to included, is still flagged alive.
FlagsWrittenOnlyByHealthCheckWitness ==
    \E r \in Requests :
        /\ pc[r] = "done"
        /\ nFwd[r] = 1
        /\ resp[r] = "unavailable"
        /\ nBackends >= 2
        /\ AllAlive

\* The backends marked dead.
Dead == {k \in Indices : ~At(k).Alive}

\* The candidates a NextBackend call of r has inspected so far.
Inspected(r) ==
    {Candidate(next[r], j, nBackends) :
        j \in 0..(IF i[r] < nBackends THEN i[r] ELSE nBackends - 1)}

\* C12: a NextBackend call made while exactly one backend d is marked dead
\* returns the index that follows the cursor in circular order, stepping over
\* d only, hence never d; and a backend that a health check has marked alive
\* again is returned by the first call whose scan reaches its index: nothing
\* but its flag decides whether it is selected.
RotationSkipsDeadReadmitsRevived ==
    \A r \in Requests :
        (pc[r] = "unlock" /\ ~changed) =>
            /\ \A d \in Indices :
                  (Dead = {d} /\ nBackends >= 2) =>
                      /\ result[r] # d
                      /\ result[r] = IF next[r] = d
                                       THEN (d + 1) % nBackends
                                       ELSE next[r]
            /\ (revived # None /\ revived \in Inspected(r))
                  => result[r] = revived

\* C12 witness: with three backends, one of them dead, a call steps over the
\* dead one and returns the backend that was dead earlier and has been
\* marked alive again.
RotationSkipsDeadReadmitsRevivedWitness ==
    \E r \in Requests :
        /\ pc[r] = "unlock"
        /\ ~changed
        /\ nBackends = 3
        /\ Cardinality(Dead) = 1
        /\ i[r] = 1
        /\ revived # None
        /\ result[r] = revived

\* The health check has moved past backend k after a failed probe: k's flag
\* is written and false, and the pass is at the next backend or, k being
\* the last one, has returned.
PassedDead(k) ==
    /\ k \in Indices
    /\ k \in updated
    /\ ~At(k).Alive
    /\ \/ hcpc = "dial" /\ hcIdx = k + 1
       \/ hcpc \in {"off", "tickwait"} /\ k = nBackends - 1

\* C13: under fairness a health-check pass starts again and again, and a
\* probe that fails never stops it: the failed probe's backend gets its
\* flag set to false and the pass goes on with the next backend.
HealthCheckNeverStops ==
    /\ []<>(hcpc = "dial" /\ hcIdx = 0 /\ periodicRan)
    /\ \A k \in 0..(MaxBackends - 1) :
          (hcpc = "setalive" /\ hcIdx = k /\ ~hcStatus) ~> PassedDead(k)

\* C13 witness: a periodic pass has had a probe fail on the first backend
\* and is probing the second one.
HealthCheckNeverStopsWitness ==
    /\ periodicRan
    /\ hcpc = "dial"
    /\ hcIdx = 1
    /\ probes = <<FALSE>>
    /\ PassedDead(0)

\* C14: SetAlive is idempotent. Applying SetAlive(v) twice to a backend gives
\* what applying it once gives, and IsAlive then answers v; a SetAlive(v) on
\* a backend whose flag is already v changes no flag; and no SetAlive changes
\* the cursor, the backend list or another backend's flag.
SetAliveIdempotent ==
    [][ /\ \A k \in Indices, v \in BOOLEAN :
              /\ SetAlive(SetAlive(At(k), v), v) = SetAlive(At(k), v)
              /\ SetAlive(At(k), v).Alive = v
        /\ (hcpc = "store" /\ hcpc' # "store") =>
              /\ backends'[hcIdx + 1].Alive = hcStatus
              /\ current' = current
              /\ Len(backends') = Len(backends)
              /\ \A k \in Indices \ {hcIdx} :
                    backends'[k + 1].Alive = backends[k + 1].Alive
              /\ At(hcIdx).Alive = hcStatus =>
                    \A k \in Indices :
                        backends'[k + 1].Alive = backends[k + 1].Alive ]_vars

\* C14 witness: a periodic pass is inside SetAlive(true) on a backend that
\* an earlier SetAlive(true) has left marked alive, after a request has
\* moved the cursor.
SetAliveIdempotentWitness ==
    /\ periodicRan
    /\ hcpc = "store"
    /\ hcStatus
    /\ At(hcIdx).Alive
    /\ nBackends >= 2
    /\ current >= 1

\* The positions j of the scan order (c+1)%N, ..., (c+N)%N of r's call whose
\* backend is marked alive.
AlivePositions(r) ==
    {j \in 0..(nBackends - 1) : At((next[r] + j) % nBackends).Alive}

\* The smallest element of a non-empty set of naturals.
Min(S) == CHOOSE x \in S : \A y \in S : x <= y

\* C15: NextBackend scans (c+1)%N, (c+2)%N, ..., (c+N)%N from the cursor c
\* it finds, at most N candidates, the last being c itself. With flags that
\* do not change during the call it returns the first alive index of that
\* order and leaves the cursor on it; with no alive index it returns nil
\* after N candidates and leaves the cursor at c.
FirstAliveAfterCursor ==
    \A r \in Requests :
        /\ pc[r] \in {"rlock", "read", "select", "advance"} =>
              /\ next[r] = (current + 1) % nBackends
              /\ i[r] < nBackends
              /\ idx[r] = (next[r] + i[r]) % nBackends
        /\ (pc[r] = "unlock" /\ ~changed) =>
              IF AlivePositions(r) = {}
                THEN /\ result[r] = None
                     /\ i[r] = nBackends
                     /\ (next[r] + nBackends - 1) % nBackends = current
                ELSE /\ result[r] =
                           (next[r] + Min(AlivePositions(r))) % nBackends
                     /\ current = result[r]
                     /\ i[r] = Min(AlivePositions(r))

\* C15 witness: with three backends and a cursor that is not 0, a call has
\* found two candidates dead and returns the third and last one, which is
\* the backend the cursor was on.
FirstAliveAfterCursorWitness ==
    \E r \in Requests :
        /\ pc[r] = "unlock"
        /\ ~changed
        /\ nBackends = 3
        /\ i[r] = 2
        /\ result[r] # None
        /\ result[r] >= 1
        /\ current = result[r]

\* C16: with all N backends alive, any K <= N NextBackend calls that follow
\* one another in the order in which lb.mu serialises them, whichever
\* goroutines make them, return K pairwise distinct backends: the K indices
\* that follow, in circular order, the cursor the first of them found.
ConcurrentCallsDistinct ==
    \A a \in 1..Len(hist), K \in 1..nBackends :
        a + K - 1 <= Len(hist) =>
            LET W == {hist[j] : j \in a..(a + K - 1)}
            IN  /\ Cardinality(W) = K
                /\ W = {(hist[a] + m) % nBackends : m \in 0..(K - 1)}

\* C16 witness: two requests are being forwarded at the same time; their
\* NextBackend calls were the last two, made with both backends alive, and
\* returned different backends.
ConcurrentCallsDistinctWitness ==
    \E r1, r2 \in Requests :
        /\ r1 # r2
        /\ pc[r1] = "forward"
        /\ pc[r2] = "forward"
        /\ nBackends >= 2
        /\ Len(hist) >= 2
        /\ target[r1] = hist[Len(hist) - 1]
        /\ target[r2] = hist[Len(hist)]
        /\ target[r1] # target[r2]

\* C17: a HealthCheck pass probes the backends one by one in configuration
\* order, each exactly once (the j-th probe of the pass is the one of
\* backend j-1, and a finished pass has made N probes), and sets every
\* backend's flag to the result of that backend's own probe; so when the pass
\* has returned every flag equals what the pass found for its backend.
PassSetsProbeResults ==
    /\ InPass =>
          /\ Len(probes) = hcIdx + (IF hcpc = "dial" THEN 0 ELSE 1)
          /\ hcpc # "dial" => probes[hcIdx + 1] = hcStatus
          /\ updated = 0..(Len(probes) -
                              (IF hcpc \in {"dial", "range"} THEN 1 ELSE 2))
    /\ \A k \in updated : At(k).Alive = probes[k + 1]
    /\ (~InPass /\ mainpc # "register") =>
          /\ Len(probes) = nBackends
          /\ updated = Indices

\* C17 witness: a periodic pass over three backends has returned; it found
\* the second one unreachable and the others reachable, and the flags say so.
PassSetsProbeResultsWitness ==
    /\ periodicRan
    /\ hcpc = "tickwait"
    /\ nBackends = 3
    /\ probes = <<TRUE, FALSE, TRUE>>
    /\ At(0).Alive
    /\ ~At(1).Alive
    /\ At(2).Alive

\* C18: whatever the health checks do to the other backends' flags, a
\* backend k that stays alive is never left out of N consecutive NextBackend
\* calls (at most N-1 calls in a row return another backend), and a call made
\* while some backend stays alive returns a backend, never nil.
NoStarvation ==
    /\ \A k \in DOMAIN missed :
          missed[k] # None => (k \in Indices /\ missed[k] <= nBackends - 1)
    /\ \A r \in Requests :
          (pc[r] = "unlock" /\ \E k \in DOMAIN missed : missed[k] # None)
              => result[r] # None

\* C18 witness: with three backends, one of them marked dead at the moment,
\* a backend that stayed alive through two calls that returned others is
\* returned by the third call.
NoStarvationWitness ==
    \E r \in Requests, k \in DOMAIN missed :
        /\ nBackends = 3
        /\ missed[k] = 2
        /\ Dead # {}
        /\ pc[r] = "unlock"
        /\ result[r] = k

\* The locking discipline of the program. A Backend read lock is held only
\* by the goroutine that holds lb.mu, while it is inside IsAlive on that
\* backend; a goroutine outside NextBackend holds no lock at all; a goroutine
\* waiting in lb.mu.Lock() waits for one that is inside NextBackend; the
\* write lock is held or awaited only by the health check, for the backend
\* it is at, with no reader inside; and the readers an announced writer
\* waits for are inside IsAlive, where nothing blocks them.
LockDiscipline ==
    /\ \A r \in Requests, k \in Indices :
          r \in At(k).mu.r => (mu = r /\ pc[r] = "read" /\ idx[r] = k)
    /\ \A r \in Requests :
          pc[r] \in {"idle", "lock", "returned", "forward", "done"} => mu # r
    /\ \A r \in Requests :
          (pc[r] = "lock" /\ mu # Free) => mu \in InNextBackend
    /\ \A k \in Indices :
          /\ At(k).mu.w => (hcpc = "store" /\ hcIdx = k /\ At(k).mu.r = {})
          /\ At(k).mu.pend => (hcpc = "lockwait" /\ hcIdx = k)
    /\ hcpc = "lockwait" =>
          \A q \in At(hcIdx).mu.r : ENABLED IsAliveReturn(q)

\* C19: with NextBackend calls running concurrently with each other and
\* with the health check's SetAlive calls, no goroutine takes lb.mu while it
\* holds a Backend lock and no goroutine waits for a lock whose holder cannot
\* run; under fairness every call that has taken lb.mu returns, to a
\* forward (backend found) or to the 503 answer (nil), and has released it:
\* a goroutine that holds lb.mu, or that has returned from NextBackend and
\* has not yet tested the result, always gets out of that situation, which
\* it leaves only by being dispatched to the forward or to the 503.
NextBackendTerminates ==
    /\ []LockDiscipline
    /\ \A r \in Callers : []<>(mu # r /\ pc[r] # "returned")

\* C19 witness: a NextBackend call that holds lb.mu is blocked in RLock by
\* the health check's write lock on its candidate, while another request
\* goroutine waits in lb.mu.Lock().
NextBackendTerminatesWitness ==
    \E r, q \in Requests :
        /\ mu = r
        /\ pc[r] = "rlock"
        /\ At(idx[r]).mu.w
        /\ hcpc = "store"
        /\ pc[q] = "lock"
        /\ nBackends >= 2

\* C20: the load balancer fails closed at startup. Backends are registered
\* with their flag false and the cursor at 0; as long as no health check has
\* marked a backend alive every flag is false and NextBackend returns nil;
\* main's initial HealthCheck has written every flag before the periodic
\* goroutine exists and before a request is accepted, so no request is
\* dispatched on flags that were never probed, and the periodic pass never
\* runs alongside the initial one.
FailClosedAtStartup ==
    /\ mainpc = "register" =>
          (AllDead /\ current = 0 /\ hcpc = "off" /\ ~everAlive)
    /\ ~everAlive =>
          /\ AllDead
          /\ \A r \in Requests :
                /\ pc[r] \in {"unlock", "returned"} => result[r] = None
                /\ pc[r] # "forward"
    /\ mainpc # "serve" => \A r \in Requests : pc[r] = "idle"
    /\ mainpc \in {"register", "initial", "spawn"} =>
          (hcpc # "tickwait" /\ tick = 0 /\ ~tickSeen /\ ~periodicRan)
    /\ mainpc = "initial" => InPass
    /\ mainpc \in {"spawn", "listen", "serve"} =>
          /\ InPass => periodicRan
          /\ ~InPass => (updated = Indices /\ Len(probes) = nBackends)
    /\ (\E r \in Requests : pc[r] # "idle") =>
          \A k \in Indices : k \in updated \/ periodicRan

\* C20 witness: the initial pass found every backend unreachable, the
\* server is accepting requests, and a NextBackend call is returning nil
\* before any health check has marked a backend alive.
FailClosedAtStartupWitness ==
    \E r \in Requests :
        /\ mainpc = "serve"
        /\ ~everAlive
        /\ pc[r] = "unlock"
        /\ result[r] = None
        /\ nBackends >= 2

====
